---------------------------- MODULE Spec2Model ----------------------------
(***************************************************************************)
(* Model of infisical_sdk/api_types.py: the dataclass models and the       *)
(* BaseModel.to_dict / from_dict conversions between them and plain        *)
(* JSON-like mappings.                                                     *)
(*                                                                         *)
(* Python values are tagged records:                                       *)
(*   None, str, int, bool, an enum member, and three kinds of object with  *)
(*   an identity (oid): list, dict and dataclass instance.  Two values     *)
(*   with the same oid are the same object; == never looks at the oid.     *)
(***************************************************************************)
EXTENDS Integers, Sequences, FiniteSets, TLC

VARIABLES
    pc,      \* "start", "built", "failed", "dumped", "reloaded", "compared", "edited"
    cls,     \* the class T whose from_dict / constructor was called
    m,       \* the mapping handed to T.from_dict (None when R was constructed directly)
    R,       \* the instance built (or the exception raised)
    d,       \* R.to_dict()
    R2,      \* T.from_dict(d)
    peer,    \* a second instance R was compared with
    eq,      \* result of R == peer
    err      \* the last exception raised by an attribute assignment

vars == <<pc, cls, m, R, d, R2, peer, eq, err>>

\* Longest list built for the inputs.
MaxLen == 2

---------------------------------------------------------------------------
\* Python values

None_ == [k |-> "none"]
Str(s) == [k |-> "str", v |-> s]
Num(i) == [k |-> "int", n |-> i]
Bool(b) == [k |-> "bool", b |-> b]
List(o, it) == [k |-> "list", oid |-> o, items |-> it]
Dict(o, e) == [k |-> "dict", oid |-> o, ent |-> e]
Inst(c, o, e) == [k |-> "inst", cls |-> c, oid |-> o, ent |-> e]
Raise(exc) == [k |-> "raise", v |-> exc]

IsObj(x) == x.k \in {"list", "dict", "inst"}

\* class ApprovalStatus(str, Enum)
ApprovalStatus == [OPEN |-> "open", APPROVED |-> "approved", REJECTED |-> "rejected"]
EnumMember(name) == [k |-> "enum", cls |-> "ApprovalStatus", name |-> name]
\* member.value
EnumValue(x) == Str(ApprovalStatus[x.name])

Keys(x) == DOMAIN x.ent
Range(s) == {s[i] : i \in DOMAIN s}

---------------------------------------------------------------------------
\* The dataclasses: fields in declaration order, and their defaults

SecretTag == <<"id", "slug", "name", "color">>
SecretMetadata == <<"key", "value">>
BaseSecret ==
    <<"id", "_id", "workspace", "environment", "version", "type", "secretKey",
      "secretValue", "secretComment", "createdAt", "updatedAt",
      "secretReminderNote", "secretReminderRepeatDays", "skipMultilineEncoding",
      "metadata", "secretMetadata", "secretPath", "tags">>
Import == <<"secretPath", "environment", "folderId", "secrets">>
ListSecretsResponse == <<"secrets", "imports">>
SingleSecretResponse == <<"secret">>
MachineIdentityLoginResponse ==
    <<"accessToken", "expiresIn", "accessTokenMaxTTL", "tokenType">>

Classes ==
    [SecretTag |-> SecretTag, SecretMetadata |-> SecretMetadata,
     BaseSecret |-> BaseSecret, Import |-> Import,
     ListSecretsResponse |-> ListSecretsResponse,
     SingleSecretResponse |-> SingleSecretResponse,
     MachineIdentityLoginResponse |-> MachineIdentityLoginResponse]

ClassNames == DOMAIN Classes
FieldSet(c) == Range(Classes[c])

\* Fields declared with "= None"
NoneDefault(c) ==
    CASE c = "SecretTag" -> {"color"}
      [] c = "BaseSecret" ->
            {"secretReminderNote", "secretReminderRepeatDays", "metadata", "secretPath"}
      [] c = "Import" -> {"folderId"}
      [] OTHER -> {}

\* Fields declared with "= False"
FalseDefault(c) == IF c = "BaseSecret" THEN {"skipMultilineEncoding"} ELSE {}

\* Fields declared with field(default_factory=list)
ListFactory(c) ==
    CASE c = "BaseSecret" -> {"secretMetadata", "tags"}
      [] c = "Import" -> {"secrets"}
      [] c = "ListSecretsResponse" -> {"imports"}
      [] OTHER -> {}

Required(c) == FieldSet(c) \ (NoneDefault(c) \cup FalseDefault(c) \cup ListFactory(c))

\* Variant: skipMultilineEncoding declared with "= None"
Default_none(c, f, o) == IF f \in ListFactory(c) THEN List(o, <<>>) ELSE None_

\* The value __init__ gives field f when the caller passes none; a
\* default_factory builds a new list (identity o) on every call.
Default(c, f, o) ==
    IF f \in ListFactory(c) THEN List(o, <<>>)
    ELSE IF f \in FalseDefault(c) THEN Bool(FALSE)
    ELSE None_

\* Variant: SecretTag declared with a plain @dataclass
Frozen_never(c) == FALSE
\* @dataclass(frozen=True)
Frozen(c) == c = "SecretTag"

---------------------------------------------------------------------------
\* BaseModel.to_dict.  New objects get the identities o, o.<field>, o.<field>.<index>.

\* bool(value)
Truthy(value) ==
    CASE value.k = "none" -> FALSE
      [] value.k = "str" -> value.v # ""
      [] value.k = "int" -> value.n # 0
      [] value.k = "bool" -> value.b
      [] value.k = "list" -> value.items # <<>>
      [] value.k = "dict" -> Keys(value) # {}
      [] OTHER -> TRUE

\* Variant: "if value:" in place of "if value is not None:"
Emitted_truthy(value) == Truthy(value)
\* if value is not None
Emitted(value) == value.k # "none"

\* Variant: list items copied without conversion
ItemIsModel_never(item) == FALSE
\* isinstance(item, BaseModel), for the items of a list
ItemIsModel(item) == item.k = "inst"

RECURSIVE to_dict(_, _)
to_dict(self, o) ==
    LET convert(key) ==
            LET value == self.ent[key]
                at == Append(o, key)
            IN  IF value.k = "inst" THEN to_dict(value, at)
                ELSE IF value.k = "list" THEN
                    List(at, [i \in DOMAIN value.items |->
                                 IF ItemIsModel(value.items[i])
                                 THEN to_dict(value.items[i], Append(at, ToString(i)))
                                 ELSE value.items[i]])
                ELSE IF value.k = "enum" THEN EnumValue(value)
                ELSE value
    IN  Dict(o, [key \in {f \in Keys(self) : Emitted(self.ent[f])} |-> convert(key)])

\* Variant: a constructor that drops the keywords it does not declare
Construct_lenient(c, data, o) ==
    IF data.k # "dict" \/ ~(Required(c) \subseteq Keys(data))
    THEN Raise("TypeError")
    ELSE Inst(c, o, [f \in FieldSet(c) |->
                        IF f \in Keys(data) THEN data.ent[f]
                        ELSE IF f \in ListFactory(c) THEN List(Append(o, f), <<>>)
                        ELSE IF f \in FalseDefault(c) THEN Bool(FALSE)
                        ELSE None_])

\* cls(**data): the dataclass __init__ called with the mapping's entries as
\* keyword arguments.  The arguments are stored as they are.
Construct(c, data, o) ==
    IF data.k # "dict" THEN Raise("TypeError")
    ELSE IF ~(Required(c) \subseteq Keys(data)) \/ ~(Keys(data) \subseteq FieldSet(c))
    THEN Raise("TypeError")
    ELSE Inst(c, o, [f \in FieldSet(c) |->
                        IF f \in Keys(data) THEN data.ent[f]
                        ELSE Default(c, f, Append(o, f))])

\* The class of the records a list-valued field is declared to hold
ItemClass(c, f) ==
    CASE c = "BaseSecret" /\ f = "tags" -> "SecretTag"
      [] c = "BaseSecret" /\ f = "secretMetadata" -> "SecretMetadata"
      [] c = "Import" /\ f = "secrets" -> "BaseSecret"
      [] OTHER -> "none"

\* Variant: a from_dict that builds the declared record for every item of a
\* list-valued field
BaseModel_from_dict_nested(c, data, o) ==
    LET r == Construct(c, data, o)
    IN  IF r.k = "raise" THEN r
        ELSE [r EXCEPT !.ent =
                [f \in Keys(r) |->
                    IF ItemClass(c, f) # "none" /\ r.ent[f].k = "list"
                    THEN List(Append(o, f),
                              [i \in DOMAIN r.ent[f].items |->
                                  Inst(ItemClass(c, f), Append(Append(o, f), ToString(i)),
                                       r.ent[f].items[i].ent)])
                    ELSE r.ent[f]]]

\* BaseModel.from_dict
BaseModel_from_dict(c, data, o) == Construct(c, data, o)

\* [C.from_dict(x) for x in value]: raises as soon as one element does, and
\* when value is not iterable.  Iterating a dict yields its keys and
\* iterating a str its characters: none of them is a mapping, so
\* C.from_dict raises on the first one, and an empty dict or str gives [].
Comprehension(c, value, o) ==
    IF value.k = "dict"
    THEN IF Keys(value) = {} THEN List(o, <<>>) ELSE Raise("TypeError")
    ELSE IF value.k \in {"str", "enum"}
    THEN IF (IF value.k = "enum" THEN EnumValue(value) ELSE value).v = ""
         THEN List(o, <<>>) ELSE Raise("TypeError")
    ELSE IF value.k # "list" THEN Raise("TypeError")
    ELSE LET built == [i \in DOMAIN value.items |->
                          BaseModel_from_dict(c, value.items[i], Append(o, ToString(i)))]
             bad == {i \in DOMAIN built : built[i].k = "raise"}
         IN  IF bad # {} THEN built[CHOOSE i \in bad : \A j \in bad : i <= j]
             ELSE List(o, built)

\* Variant: data.get('imports') without the [] default, left as None
ListSecretsResponse_from_dict_nodefault(data, o) ==
    IF "secrets" \notin Keys(data) THEN Raise("KeyError")
    ELSE LET secrets == Comprehension("BaseSecret", data.ent["secrets"], Append(o, "secrets"))
             imports ==
                 IF "imports" \in Keys(data)
                 THEN Comprehension("Import", data.ent["imports"], Append(o, "imports"))
                 ELSE None_
         IN  IF secrets.k = "raise" THEN secrets
             ELSE IF imports.k = "raise" THEN imports
             ELSE Inst("ListSecretsResponse", o, [secrets |-> secrets, imports |-> imports])

\* ListSecretsResponse.from_dict
ListSecretsResponse_from_dict(data, o) ==
    IF "secrets" \notin Keys(data) THEN Raise("KeyError")
    ELSE LET secrets == Comprehension("BaseSecret", data.ent["secrets"], Append(o, "secrets"))
             imports ==
                 Comprehension("Import",
                     IF "imports" \in Keys(data) THEN data.ent["imports"]
                     ELSE List(Append(o, "get"), <<>>),
                     Append(o, "imports"))
         IN  IF secrets.k = "raise" THEN secrets
             ELSE IF imports.k = "raise" THEN imports
             ELSE Inst("ListSecretsResponse", o, [secrets |-> secrets, imports |-> imports])

\* SingleSecretResponse.from_dict
SingleSecretResponse_from_dict(data, o) ==
    IF "secret" \notin Keys(data) THEN Raise("KeyError")
    ELSE LET secret == BaseModel_from_dict("BaseSecret", data.ent["secret"], Append(o, "secret"))
         IN  IF secret.k = "raise" THEN secret
             ELSE Inst("SingleSecretResponse", o, [secret |-> secret])

\* T.from_dict(data): the class's own from_dict when it has one
from_dict(c, data, o) ==
    CASE c = "ListSecretsResponse" -> ListSecretsResponse_from_dict(data, o)
      [] c = "SingleSecretResponse" -> SingleSecretResponse_from_dict(data, o)
      [] OTHER -> BaseModel_from_dict(c, data, o)

---------------------------------------------------------------------------
\* Equality (==): the dataclass __eq__ compares class and fields, lists and
\* dicts compare by content, a str-enum member equals its value, and a bool
\* equals the int 0 or 1.  Canon maps equal values to one representative.

RECURSIVE Canon(_)
Canon(x) ==
    CASE x.k = "list" -> List(<<>>, [i \in DOMAIN x.items |-> Canon(x.items[i])])
      [] x.k = "dict" -> Dict(<<>>, [f \in Keys(x) |-> Canon(x.ent[f])])
      [] x.k = "inst" -> Inst(x.cls, <<>>, [f \in Keys(x) |-> Canon(x.ent[f])])
      [] x.k = "enum" -> EnumValue(x)
      [] x.k = "bool" -> Num(IF x.b THEN 1 ELSE 0)
      [] OTHER -> x

PyEq(x, y) == Canon(x) = Canon(y)

---------------------------------------------------------------------------
\* The object graph

Children(x) ==
    CASE x.k = "list" -> Range(x.items)
      [] x.k \in {"dict", "inst"} -> {x.ent[f] : f \in Keys(x)}
      [] OTHER -> {}

\* Identities of the lists, dicts and instances reachable from x
RECURSIVE Oids(_)
Oids(x) ==
    IF IsObj(x) THEN {x.oid} \cup UNION {Oids(c) : c \in Children(x)} ELSE {}

\* The values reachable from x, x included
RECURSIVE Reach(_)
Reach(x) == {x} \cup UNION {Reach(c) : c \in Children(x)}

\* x after the object with identity o has become obj
RECURSIVE Store(_, _, _)
Store(x, o, obj) ==
    IF ~IsObj(x) THEN x
    ELSE IF x.oid = o THEN obj
    ELSE IF x.k = "list"
         THEN [x EXCEPT !.items = [i \in DOMAIN x.items |-> Store(x.items[i], o, obj)]]
         ELSE [x EXCEPT !.ent = [f \in Keys(x) |-> Store(x.ent[f], o, obj)]]

---------------------------------------------------------------------------
\* Inputs.  Literals are written without identities; New gives every list,
\* dict and instance of a literal its own identity under the root o.

D(e) == Dict(<<>>, e)
L(it) == List(<<>>, it)
I(c, e) == Inst(c, <<>>, e)

RECURSIVE New(_, _)
New(x, o) ==
    CASE x.k = "list" ->
            List(o, [i \in DOMAIN x.items |-> New(x.items[i], Append(o, ToString(i)))])
      [] x.k = "dict" -> Dict(o, [f \in Keys(x) |-> New(x.ent[f], Append(o, f))])
      [] x.k = "inst" -> Inst(x.cls, o, [f \in Keys(x) |-> New(x.ent[f], Append(o, f))])
      [] OTHER -> x

\* A key left out of a mapping
Absent == [k |-> "absent"]
\* The mapping with the entries of e that are not Absent
Given(e) == [f \in {g \in DOMAIN e : e[g] # Absent} |-> e[f]]
\* e without key f, and e with one more key
Without(e, f) == [g \in DOMAIN e \ {f} |-> e[g]]
With(e, f, x) == [g \in DOMAIN e \cup {f} |-> IF g = f THEN x ELSE e[g]]

\* All sequences over S of length at most n
SeqUpTo(S, n) == UNION {[1..i -> S] : i \in 0..n}

TagEntries(id, color) ==
    Given([id |-> Str(id), slug |-> Str("s1"), name |-> Str("n1"), color |-> color])
RawTag == D(TagEntries("t1", Str("red")))
RawMetadata == D([key |-> Str("k1"), value |-> Str("v1")])

RequiredSecretEntries ==
    [f \in Required("BaseSecret") |->
        CASE f = "version" -> Num(1)
          [] f = "secretComment" -> Str("")
          [] OTHER -> Str(f)]

SecretEntries(note, days, skip, meta, path, lists) ==
    [f \in DOMAIN RequiredSecretEntries \cup
           {g \in DOMAIN lists : lists[g] # Absent} \cup
           {g \in {"secretReminderNote", "secretReminderRepeatDays",
                   "skipMultilineEncoding", "metadata", "secretPath"} :
               [secretReminderNote |-> note, secretReminderRepeatDays |-> days,
                skipMultilineEncoding |-> skip, metadata |-> meta,
                secretPath |-> path][g] # Absent} |->
        CASE f = "secretReminderNote" -> note
          [] f = "secretReminderRepeatDays" -> days
          [] f = "skipMultilineEncoding" -> skip
          [] f = "metadata" -> meta
          [] f = "secretPath" -> path
          [] f \in DOMAIN lists -> lists[f]
          [] OTHER -> RequiredSecretEntries[f]]

SecretLists ==
    {[secretMetadata |-> Absent, tags |-> Absent],
     [secretMetadata |-> L(<<>>), tags |-> L(<<>>)],
     [secretMetadata |-> L(<<RawMetadata>>), tags |-> L(<<RawTag>>)]}

\* Wire mappings of a secret: every optional key absent, null or set
SecretMaps ==
    {D(SecretEntries(note, days, skip, meta, path, lists)) :
        note \in {Absent, None_, Str("note")},
        days \in {Absent, None_, Num(7)},
        skip \in {Absent, None_, Bool(FALSE), Bool(TRUE)},
        meta \in {Absent, None_, D([source |-> Str("cli")])},
        path \in {Absent, None_, Str("/")},
        lists \in SecretLists}

\* Mappings with the eleven required keys and no other
MinimalSecrets ==
    {D([RequiredSecretEntries EXCEPT !["version"] = Num(n), !["secretComment"] = Str(c)]) :
        n \in {0, 1}, c \in {"", "fix me"}}

NoLists == [secretMetadata |-> Absent, tags |-> Absent]
MinimalSecret == D(RequiredSecretEntries)
NullSecret == D(SecretEntries(None_, None_, None_, None_, None_, NoLists))
FullSecret ==
    D(SecretEntries(Str("note"), Num(7), Bool(TRUE), D([source |-> Str("cli")]), Str("/"),
                    [secretMetadata |-> L(<<RawMetadata>>), tags |-> L(<<RawTag>>)]))
\* Mappings whose keys do not match the class: one required key missing,
\* one undeclared key added
Misshapen(x) ==
    {D(Without(x.ent, f)) : f \in Keys(x)} \cup {D(With(x.ent, "extra", Str("x")))}

TagMaps ==
    {D(TagEntries(id, color)) : id \in {"t1", "t2"}, color \in {Absent, None_, Str("red")}}
MetadataMaps == {D([key |-> Str(key), value |-> Str("v1")]) : key \in {"k1", "k2"}}
LoginMaps ==
    {D([accessToken |-> Str("tok"), expiresIn |-> Num(n),
        accessTokenMaxTTL |-> Num(7200), tokenType |-> Str("Bearer")]) : n \in {0, 3600}}
ImportEntries(folder, secrets) ==
    Given([secretPath |-> Str("/"), environment |-> Str("dev"),
           folderId |-> folder, secrets |-> secrets])
ImportMaps ==
    {D(ImportEntries(folder, secrets)) :
        folder \in {Absent, None_, Str("f1")},
        secrets \in {Absent} \cup {L(s) : s \in SeqUpTo({MinimalSecret, FullSecret}, MaxLen)}}
MinimalImport == D(ImportEntries(Absent, Absent))
FullImport == D(ImportEntries(Str("f1"), L(<<FullSecret>>)))

SecretSamples == {NullSecret, FullSecret, D(Without(MinimalSecret.ent, "id"))}
ImportSamples == {MinimalImport, FullImport, D(With(MinimalImport.ent, "extra", Str("x")))}
ListMaps ==
    {D(Given([secrets |-> L(s), imports |-> i])) :
        s \in SeqUpTo(SecretSamples, MaxLen),
        i \in {Absent, None_} \cup {L(t) : t \in SeqUpTo(ImportSamples, MaxLen)}}
\* Values other than a list of mappings under secrets / imports
OddValues ==
    {D(<<>>), Str(""), Str("x"), MinimalSecret, Num(0), EnumMember("OPEN"),
     L(<<Str("a")>>), L(<<None_>>)}
OddListMaps ==
    {D(Given([secrets |-> s, imports |-> i])) :
        s \in OddValues \cup {L(<<>>)}, i \in OddValues \cup {Absent}}
SingleMaps == {D([secret |-> s]) : s \in SecretSamples \cup {MinimalSecret, None_}}

\* The mappings handed to T.from_dict
Mappings(c) ==
    CASE c = "SecretTag" -> TagMaps \cup Misshapen(RawTag)
      [] c = "SecretMetadata" -> MetadataMaps \cup Misshapen(RawMetadata)
      [] c = "BaseSecret" ->
            SecretMaps \cup MinimalSecrets \cup Misshapen(MinimalSecret) \cup Misshapen(FullSecret)
      [] c = "Import" -> ImportMaps \cup Misshapen(MinimalImport) \cup Misshapen(FullImport)
      [] c = "ListSecretsResponse" ->
            ListMaps \cup OddListMaps \cup Misshapen(D([secrets |-> L(<<MinimalSecret>>),
                                       imports |-> L(<<MinimalImport>>)]))
      [] c = "SingleSecretResponse" -> SingleMaps \cup Misshapen(D([secret |-> FullSecret]))
      [] c = "MachineIdentityLoginResponse" ->
            LoginMaps \cup Misshapen(CHOOSE x \in LoginMaps : TRUE)

---------------------------------------------------------------------------
\* Instances built by calling the constructors directly, with typed members

Tag(id, slug, name, color) ==
    I("SecretTag", [id |-> Str(id), slug |-> Str(slug), name |-> Str(name), color |-> color])
Tags ==
    {Tag(id, slug, name, color) :
        id \in {"t1", "t2"}, slug \in {"s1", "s2"}, name \in {"n1", "n2"},
        color \in {None_, Str("red")}}
Metadatas == {I("SecretMetadata", x.ent) : x \in MetadataMaps}
Logins == {I("MachineIdentityLoginResponse", x.ent) : x \in LoginMaps}

Secret(skip, meta, mds, tags) ==
    I("BaseSecret",
      [f \in FieldSet("BaseSecret") |->
          CASE f \in Required("BaseSecret") -> RequiredSecretEntries[f]
            [] f = "skipMultilineEncoding" -> skip
            [] f = "metadata" -> meta
            [] f = "secretMetadata" -> L(mds)
            [] f = "tags" -> L(tags)
            [] OTHER -> None_])
PlainSecret == Secret(Bool(FALSE), None_, <<>>, <<>>)
TaggedSecret ==
    Secret(Bool(TRUE), EnumMember("OPEN"),
           <<I("SecretMetadata", RawMetadata.ent)>>,
           <<Tag("t1", "s1", "n1", None_), Tag("t2", "s2", "n2", Str("red"))>>)
Secrets ==
    {Secret(skip, meta, lists[1], lists[2]) :
        skip \in {None_, Bool(FALSE)},
        meta \in {None_, EnumMember("OPEN"), L(<<EnumMember("APPROVED")>>)},
        lists \in {<<<<>>, <<>>>>,
                   <<<<I("SecretMetadata", RawMetadata.ent)>>, <<Tag("t1", "s1", "n1", None_)>>>>}}
    \cup {TaggedSecret}
Imports ==
    {I("Import", [secretPath |-> Str("/"), environment |-> Str("dev"),
                  folderId |-> folder, secrets |-> L(s)]) :
        folder \in {None_, Str("f1")}, s \in SeqUpTo({PlainSecret, TaggedSecret}, MaxLen)}
PlainImport ==
    I("Import", [secretPath |-> Str("/"), environment |-> Str("dev"),
                 folderId |-> None_, secrets |-> L(<<>>)])
NestedImport ==
    I("Import", [secretPath |-> Str("/"), environment |-> Str("dev"),
                 folderId |-> Str("f1"), secrets |-> L(<<TaggedSecret>>)])
Lists ==
    {I("ListSecretsResponse", [secrets |-> L(s), imports |-> L(i)]) :
        s \in SeqUpTo({PlainSecret, TaggedSecret}, MaxLen),
        i \in SeqUpTo({PlainImport, NestedImport}, MaxLen)}
Singles == {I("SingleSecretResponse", [secret |-> s]) : s \in {PlainSecret, TaggedSecret}}

Instances(c) ==
    CASE c = "SecretTag" -> Tags
      [] c = "SecretMetadata" -> Metadatas
      [] c = "BaseSecret" -> Secrets
      [] c = "Import" -> Imports
      [] c = "ListSecretsResponse" -> Lists
      [] c = "SingleSecretResponse" -> Singles
      [] c = "MachineIdentityLoginResponse" -> Logins

\* The instances R is compared with
Peers(c) ==
    CASE c = "BaseSecret" -> {PlainSecret, TaggedSecret}
      [] c = "Import" -> {PlainImport, NestedImport}
      [] c = "ListSecretsResponse" ->
            {I(c, [secrets |-> L(s), imports |-> L(<<>>)]) :
                s \in {<<>>, <<PlainSecret>>, <<TaggedSecret>>}}
      [] OTHER -> Instances(c)

---------------------------------------------------------------------------
\* The operations

Init ==
    /\ pc = "start"
    /\ cls = "none"
    /\ m = None_
    /\ R = None_
    /\ d = None_
    /\ R2 = None_
    /\ peer = None_
    /\ eq = FALSE
    /\ err = "none"

\* R = T.from_dict(m)
FromDict ==
    /\ pc = "start"
    /\ \E c \in ClassNames : \E data \in Mappings(c) :
          /\ cls' = c
          /\ m' = New(data, <<"m">>)
          /\ R' = from_dict(c, m', <<"r">>)
          /\ pc' = IF R'.k = "raise" THEN "failed" ELSE "built"
    /\ UNCHANGED <<d, R2, peer, eq, err>>

\* R = T(...)
New_ ==
    /\ pc = "start"
    /\ \E c \in ClassNames : \E x \in Instances(c) :
          /\ cls' = c
          /\ R' = New(x, <<"R">>)
    /\ pc' = "built"
    /\ UNCHANGED <<m, d, R2, peer, eq, err>>

\* d = R.to_dict()
ToDict ==
    /\ pc = "built"
    /\ d' = to_dict(R, <<"d">>)
    /\ pc' = "dumped"
    /\ UNCHANGED <<cls, m, R, R2, peer, eq, err>>

\* R2 = T.from_dict(d)
Reload ==
    /\ pc = "dumped"
    /\ R2' = from_dict(cls, d, <<"r2">>)
    /\ pc' = "reloaded"
    /\ UNCHANGED <<cls, m, R, d, peer, eq, err>>

\* eq = (R == x) for another instance x of the same class
Compare ==
    /\ pc = "built"
    /\ peer = None_
    /\ \E x \in Peers(cls) :
          /\ peer' = New(x, <<"p">>)
          /\ eq' = PyEq(R, peer')
    /\ pc' = "compared"
    /\ UNCHANGED <<cls, m, R, d, R2, err>>

\* R.f = x: dataclass(frozen=True) makes __setattr__ raise
SetAttr ==
    /\ pc = "built"
    /\ \E f \in FieldSet(cls) :
          IF Frozen(cls)
          THEN /\ err' = "FrozenInstanceError"
               /\ UNCHANGED <<R, pc>>
          ELSE /\ R' = [R EXCEPT !.ent[f] = Str("new")]
               /\ pc' = "edited"
               /\ UNCHANGED err
    /\ UNCHANGED <<cls, m, d, R2, peer, eq>>

\* The caller's handles on plain data: the mapping it passed in and the
\* mapping it got back
Handles == {x \in {m, d} : x.k = "dict"}

\* Every variable after the object with identity o has become obj
Mutate(o, obj) ==
    /\ m' = Store(m, o, obj)
    /\ R' = Store(R, o, obj)
    /\ d' = Store(d, o, obj)
    /\ R2' = Store(R2, o, obj)
    /\ pc' = "edited"
    /\ UNCHANGED <<cls, peer, eq, err>>

\* x.append("new") on a list x reachable from m or d
AppendItem ==
    /\ pc \in {"built", "dumped", "reloaded"}
    /\ \E h \in Handles : \E x \in Reach(h) :
          /\ x.k = "list"
          /\ Mutate(x.oid, [x EXCEPT !.items = Append(x.items, Str("new"))])

\* x["new"] = "new" on a mapping x reachable from m or d
SetItem ==
    /\ pc \in {"built", "dumped", "reloaded"}
    /\ \E h \in Handles : \E x \in Reach(h) :
          /\ x.k = "dict"
          /\ Mutate(x.oid, [x EXCEPT !.ent = With(x.ent, "new", Str("new"))])

Next ==
    \/ FromDict
    \/ New_
    \/ ToDict
    \/ Reload
    \/ Compare
    \/ SetAttr
    \/ AppendItem
    \/ SetItem

Spec == Init /\ [][Next]_vars

---------------------------------------------------------------------------
\* Properties

Envelopes == {"ListSecretsResponse", "SingleSecretResponse"}

\* R is the instance the conversion built, not yet assigned to or mutated
Built == pc \in {"built", "dumped", "reloaded", "compared"}
\* d is R.to_dict() of that R
Dumped == pc \in {"dumped", "reloaded"}
\* R came out of T.from_dict(m)
FromMapping == Built /\ m.k = "dict"

\* T.from_dict(m) has returned or raised, and m is as it was passed
Called == pc \notin {"start", "edited"} /\ m.k = "dict"

\* No record instance and no enumeration member at any depth of x
Plain(x) == \A y \in Reach(x) : y.k \notin {"inst", "enum"}

\* C1: for every record and every field f of it, to_dict() has no key f
\* when the field is None and has key f when it is not None.
C1_NoneOmitted ==
    Dumped =>
        /\ d.k = "dict"
        /\ Keys(d) \subseteq FieldSet(R.cls)
        /\ \A f \in FieldSet(R.cls) : (R.ent[f] = None_) <=> (f \notin Keys(d))

C1_Witness ==
    /\ pc = "dumped"
    /\ cls = "BaseSecret"
    /\ R.ent["secretReminderNote"] = None_ /\ "secretReminderNote" \notin Keys(d)
    /\ R.ent["secretComment"] = Str("") /\ "secretComment" \in Keys(d)
    /\ R.ent["skipMultilineEncoding"] = Bool(FALSE) /\ "skipMultilineEncoding" \in Keys(d)

\* The keys of mapping x are the declared fields of class c, every required one included
ShapeOK(c, x) == x.k = "dict" /\ Required(c) \subseteq Keys(x) /\ Keys(x) \subseteq FieldSet(c)

\* Iterating v yields nothing but mappings whose keys fit class c: v is a
\* list of such mappings, or an empty dict or str (a dict yields its keys, a
\* str its characters)
AllShaped(c, v) ==
    CASE v.k = "list" -> \A x \in Range(v.items) : ShapeOK(c, x)
      [] v.k = "dict" -> Keys(v) = {}
      [] v.k = "str" -> v.v = ""
      [] OTHER -> FALSE

\* The elements of a value that iterates to mappings only
Elements(v) == IF v.k = "list" THEN v.items ELSE <<>>

\* C4 as stated: for every record type, the envelopes included, from_dict
\* succeeds only on a mapping whose keys are all declared fields and include
\* every required one.
C4_ShapeErrorEveryType ==
    (Called /\ R.k = "inst") => ShapeOK(cls, m)

\* C4 amended: the types that use the generic from_dict accept a mapping
\* exactly when its keys are declared fields and include every required one;
\* the envelopes fail when their required key is missing or an element of
\* secrets / imports (or the value of secret) is not a mapping whose keys
\* are declared fields including every required one, and ignore any other
\* top-level key.
C4_ShapeError ==
    Called =>
        /\ R.k \in {"inst", "raise"}
        /\ (pc = "failed") <=> (R.k = "raise")
        /\ cls \notin Envelopes => ((R.k = "inst") <=> ShapeOK(cls, m))
        /\ cls = "ListSecretsResponse" =>
              ((R.k = "inst") <=>
                  /\ "secrets" \in Keys(m)
                  /\ AllShaped("BaseSecret", m.ent["secrets"])
                  /\ "imports" \in Keys(m) => AllShaped("Import", m.ent["imports"]))
        /\ cls = "SingleSecretResponse" =>
              ((R.k = "inst") <=>
                  ("secret" \in Keys(m) /\ ShapeOK("BaseSecret", m.ent["secret"])))

C4_Witness ==
    /\ pc = "failed"
    /\ cls = "BaseSecret"
    /\ "extra" \in Keys(m)
    /\ Required(cls) \subseteq Keys(m)
    /\ R = Raise("TypeError")

\* C5: after a successful ListSecretsResponse.from_dict(m), imports is a
\* list, empty when m has no key imports and otherwise with one Import per
\* element of m["imports"] in order; secrets has one BaseSecret per element
\* of m["secrets"] in order.
C5_ImportsAlwaysList ==
    (FromMapping /\ cls = "ListSecretsResponse") =>
        LET OnePer(c, made, given) ==
                /\ made.k = "list"
                /\ Len(made.items) = Len(given)
                /\ \A i \in DOMAIN given :
                      /\ made.items[i].k = "inst"
                      /\ made.items[i].cls = c
                      /\ \A f \in Keys(given[i]) : made.items[i].ent[f] = given[i].ent[f]
        IN  /\ AllShaped("BaseSecret", m.ent["secrets"])
            /\ OnePer("BaseSecret", R.ent["secrets"], Elements(m.ent["secrets"]))
            /\ "imports" \in Keys(m) => AllShaped("Import", m.ent["imports"])
            /\ OnePer("Import", R.ent["imports"],
                      IF "imports" \in Keys(m) THEN Elements(m.ent["imports"]) ELSE <<>>)

C5_Witness ==
    /\ FromMapping
    /\ cls = "ListSecretsResponse"
    /\ "imports" \notin Keys(m)
    /\ R.ent["imports"].k = "list"
    /\ R.ent["imports"].items = <<>>
    /\ Len(R.ent["secrets"].items) = MaxLen
    /\ R.ent["secrets"].items[1].ent["secretPath"] # R.ent["secrets"].items[MaxLen].ent["secretPath"]

\* C6: the generic from_dict stores nested mappings as they are: an Import's
\* secrets and a BaseSecret's tags and secretMetadata are the raw values of
\* m; in an envelope built by its own from_dict only the first nesting level
\* holds instances.
C6_NestedStayRaw ==
    FromMapping =>
        LET RawBelow(x) == \A f \in Keys(x) : Plain(x.ent[f])
        IN  /\ cls \notin Envelopes =>
                  /\ \A f \in Keys(m) : R.ent[f] = m.ent[f]
                  /\ RawBelow(R)
            /\ cls = "ListSecretsResponse" =>
                  \A f \in {"secrets", "imports"} :
                      \A x \in Range(R.ent[f].items) : x.k = "inst" /\ RawBelow(x)
            /\ cls = "SingleSecretResponse" =>
                  R.ent["secret"].k = "inst" /\ RawBelow(R.ent["secret"])

C6_Witness ==
    /\ FromMapping
    /\ cls = "ListSecretsResponse"
    /\ \E x \in Range(R.ent["imports"].items) :
          /\ x.ent["secrets"].k = "list"
          /\ x.ent["secrets"].items # <<>>
          /\ x.ent["secrets"].items[1].k = "dict"
    /\ \E x \in Range(R.ent["secrets"].items) :
          /\ x.ent["tags"].items # <<>>
          /\ x.ent["tags"].items[1].k = "dict"


\* The records C7 speaks of: every field holds None, a plain value, an
\* enumeration member, a record of this kind, or a list whose items are
\* records of this kind or plain values.
RECURSIVE Convertible(_)
Convertible(x) ==
    /\ x.k = "inst"
    /\ \A f \in Keys(x) :
          LET v == x.ent[f]
          IN  CASE v.k = "inst" -> Convertible(v)
                [] v.k = "list" ->
                      \A i \in DOMAIN v.items :
                          IF v.items[i].k = "inst" THEN Convertible(v.items[i])
                          ELSE Plain(v.items[i])
                [] v.k = "enum" -> TRUE
                [] OTHER -> Plain(v)

\* y is x converted: a mapping of x's fields that are not None, nested
\* records converted in turn, each list a new list of the converted items in
\* order, an enumeration member replaced by its value, the rest as it is.
RECURSIVE Mirrors(_, _)
Mirrors(x, y) ==
    /\ y.k = "dict"
    /\ Keys(y) = {f \in Keys(x) : x.ent[f] # None_}
    /\ \A f \in Keys(y) :
          LET v == x.ent[f]
              w == y.ent[f]
          IN  CASE v.k = "inst" -> Mirrors(v, w)
                [] v.k = "list" ->
                      /\ w.k = "list"
                      /\ w.oid # v.oid
                      /\ Len(w.items) = Len(v.items)
                      /\ \A i \in DOMAIN v.items :
                            IF v.items[i].k = "inst" THEN Mirrors(v.items[i], w.items[i])
                            ELSE w.items[i] = v.items[i]
                [] v.k = "enum" -> w = Str(ApprovalStatus[v.name])
                [] OTHER -> w = v

\* C7: to_dict converts through records and lists of records to any depth:
\* the result holds no record instance and no enumeration member, each
\* nested record is replaced by its own conversion, each enumeration member
\* by its value, each list by a new list of the same length and order, and
\* every other value that is not None is passed through.
C7_ToDictRecursive ==
    (Dumped /\ Convertible(R)) => (Plain(d) /\ Mirrors(R, d))

C7_Witness ==
    /\ pc = "dumped"
    /\ cls = "ListSecretsResponse"
    /\ m = None_
    /\ Convertible(R)
    /\ Len(R.ent["imports"].items) = MaxLen
    /\ \E x \in Range(R.ent["imports"].items) : \E y \in Range(x.ent["secrets"].items) :
          /\ y.ent["metadata"].k = "enum"
          /\ \E t \in Range(y.ent["tags"].items) : t.k = "inst" /\ t.cls = "SecretTag"
    /\ \E x \in Range(d.ent["imports"].items) : \E y \in Range(x.ent["secrets"].items) :
          /\ y.ent["metadata"] = Str("open")
          /\ \E t \in Range(y.ent["tags"].items) : t.k = "dict"

\* C8: for a mapping m with exactly the eleven required BaseSecret keys,
\* BaseSecret.from_dict(m).to_dict() is m extended with
\* skipMultilineEncoding: false, secretMetadata: [] and tags: [], and has
\* none of secretReminderNote, secretReminderRepeatDays, metadata, secretPath.
C8_MinimalSecretDump ==
    (Dumped /\ cls = "BaseSecret" /\ m.k = "dict" /\ Keys(m) = Required("BaseSecret")) =>
        /\ Keys(d) = Keys(m) \cup {"skipMultilineEncoding", "secretMetadata", "tags"}
        /\ \A f \in Keys(m) : d.ent[f] = m.ent[f]
        /\ d.ent["skipMultilineEncoding"] = Bool(FALSE)
        /\ d.ent["secretMetadata"].k = "list" /\ d.ent["secretMetadata"].items = <<>>
        /\ d.ent["tags"].k = "list" /\ d.ent["tags"].items = <<>>
        /\ Keys(d) \cap {"secretReminderNote", "secretReminderRepeatDays",
                         "metadata", "secretPath"} = {}

C8_Witness ==
    /\ pc = "dumped"
    /\ cls = "BaseSecret"
    /\ m.k = "dict"
    /\ Keys(m) = Required("BaseSecret")
    /\ Cardinality(Keys(m)) = 11
    /\ m.ent["secretComment"] = Str("")
    /\ m.ent["version"] = Num(0)
    /\ Cardinality(Keys(d)) = 14

TagFields == {"id", "slug", "name", "color"}

\* C9: two SecretTag instances are equal exactly when their id, slug, name
\* and color are equal, and an assignment to a field of a SecretTag raises
\* and leaves the instance as it was, however many are attempted.
C9_TagIsValue ==
    /\ []((pc = "compared" /\ cls = "SecretTag") =>
            (eq <=> \A f \in TagFields : R.ent[f] = peer.ent[f]))
    /\ [][(R.k = "inst" /\ R.cls = "SecretTag") =>
            /\ R' = R
            /\ SetAttr => err' = "FrozenInstanceError"]_vars

C9_Witness ==
    /\ pc = "compared"
    /\ cls = "SecretTag"
    /\ err = "FrozenInstanceError"
    /\ ~eq
    /\ \E f \in TagFields : \A g \in TagFields \ {f} : R.ent[g] = peer.ent[g]

\* A record that holds no nested record; for a BaseSecret, one whose
\* secretMetadata and tags are empty lists
Flat(x) ==
    /\ \A y \in Reach(x) : y = x \/ y.k # "inst"
    /\ x.cls = "BaseSecret" =>
          \A f \in {"secretMetadata", "tags"} : x.ent[f].k = "list" /\ x.ent[f].items = <<>>

\* C3 as stated: for every record R that holds no nested record,
\* from_dict(to_dict(R)) == R, for every value (None included) of each
\* optional field.
C3_RoundTripFlat ==
    (pc = "reloaded" /\ cls \notin Envelopes /\ Flat(R)) => (R2.k = "inst" /\ PyEq(R2, R))

\* C2 as stated: for every mapping m the envelope's own from_dict accepts
\* with result R, the same from_dict applied to R.to_dict() succeeds and
\* yields a record equal to R.
C2_RoundTripEnvelope ==
    (pc = "reloaded" /\ cls \in Envelopes /\ m.k = "dict") => (R2.k = "inst" /\ PyEq(R2, R))

\* C10 as stated: no list or mapping reachable from the result of a
\* conversion is the same object as one reachable from its input.
C10_NothingShared ==
    /\ FromMapping => Oids(R) \cap Oids(m) = {}
    /\ Dumped => Oids(d) \cap Oids(R) = {}

===========================================================================
